---- MODULE Spec2Model ----
(***************************************************************************)
(* NeuroBuilder (src/main.py): the container registry, the version space   *)
(* and the build pipeline of the create / run / list / replay commands,    *)
(* as a state machine over the files and directories of one environment    *)
(* root.                                                                   *)
(*                                                                         *)
(* A path is modelled by what it is joined from: the container directory   *)
(* <env>/<id> by its identifier id, a version directory by the pair        *)
(* <<id, version>>, a temporary workspace <env>/temp/<uuid> by its uuid.   *)
(* uuid.uuid4() is a fresh value at every call: the n-th container         *)
(* identifier is n, the n-th temporary workspace is n.                     *)
(* A version string is a number: 0 is the empty string (the default of     *)
(* --version), m > 0 the strftime text of minute m.                        *)
(* A file is written in one step (write_json, write_file). The text of the *)
(* build template (get_template) is not kept: no command reads it back.    *)
(***************************************************************************)
EXTENDS Integers, Sequences, FiniteSets, TLC

\* ------------------------------------------------------------------ bounds
MaxContainers == 2  \* container identifiers generated in one run
MaxBuilds == 1      \* temporary workspaces created in one run
MaxNow == 2         \* clock readings 0..MaxNow, in half minutes

\* --------------------------------------------------------------- constants
REGISTRY_VERSION == 1
EmptyVersion == 0
TicksPerMinute == 2

Procs == {1, 2}
SeqProcs == {1}
Names == {"alpha", "beta"}
Keywords == {"ubuntu", "debian", "centos", "fedora"}
\* A base image name, by the keywords it contains as substrings.
Bases == {{}, {"ubuntu"}, {"debian"}, {"centos"}, {"fedora"}, {"ubuntu", "centos"}}
Pkgs == {"", "apt", "yum", "unknown"}
Times == 0 .. MaxNow
\* A name registered before the invocations under study began, and the
\* identifier generated for it then.
SeedName == "seed"
SeedId == 0

VARIABLES
    root_exists,    \* the environment root directory exists
    registry_json,  \* <env>/registry.json: [exists, text]
    cdirs,          \* the container directories <env>/<id> that exist
    vdirs,          \* version directories: <<id, version>> -> [cast, sif]
    temp_root,      \* <env>/temp exists
    temp,           \* temporary workspaces: uuid -> set of entries in it
    ids,            \* number of container identifiers generated so far
    builds,         \* number of temporary workspaces created so far
    inv,            \* per process: the invocation's position and locals
    createStarted   \* history: the <<name, version>> a create was started for

vars == <<root_exists, registry_json, cdirs, vdirs, temp_root, temp, ids, builds,
          inv, createStarted>>

fsvars == <<root_exists, registry_json, cdirs, vdirs, temp_root, temp>>

\* ----------------------------------------------------------------- helpers
Put(m, k, v) == [x \in DOMAIN m \cup {k} |-> IF x = k THEN v ELSE m[x]]
\* Mutant: the key is kept.
Drop_Kept(m, k) == m

Drop(m, k) == [x \in DOMAIN m \ {k} |-> m[x]]
EmptyMap == [x \in {} |-> 0]

\* A Python dict: a sequence of <<key, value>> pairs with unique keys, in
\* insertion order.
DictHas(d, k) == \E i \in 1 .. Len(d) : d[i][1] = k
DictGet(d, k) == d[CHOOSE i \in 1 .. Len(d) : d[i][1] = k][2]
DictSet(d, k, v) ==
    IF DictHas(d, k)
    THEN [i \in 1 .. Len(d) |-> IF d[i][1] = k THEN <<k, v>> ELSE d[i]]
    ELSE Append(d, <<k, v>>)

\* json.dump: the members of the object in the dict's order.
write_json(obj) == [version |-> obj.version, members |-> obj.containers]

RECURSIVE JsonMembers(_, _)
JsonMembers(members, d) ==
    IF members = <<>> THEN d
    ELSE JsonMembers(Tail(members), DictSet(d, Head(members)[1], Head(members)[2]))

\* Mutant: the containers object is read as empty.
read_json_NoContainers(text) == [version |-> text.version, containers |-> <<>>]

\* json.load: the members inserted one by one into a new dict.
read_json(text) ==
    [version |-> text.version, containers |-> JsonMembers(text.members, <<>>)]

EmptyRegistry == [version |-> REGISTRY_VERSION, containers |-> <<>>]
NoFile == [exists |-> FALSE, text |-> write_json(EmptyRegistry)]

\* generate_version: strftime("%Y%m%d_%H%M") of the clock reading t.
generate_version(t) == 1 + (t \div TicksPerMinute)
Versions == {generate_version(t) : t \in Times}

\* Mutant: the yum distributions are tested first.
get_package_manager_YumFirst(base) ==
    IF "centos" \in base THEN "yum"
    ELSE IF "fedora" \in base THEN "yum"
    ELSE IF "ubuntu" \in base THEN "apt"
    ELSE IF "debian" \in base THEN "apt"
    ELSE "unknown"

\* get_package_manager
get_package_manager(base) ==
    IF "ubuntu" \in base THEN "apt"
    ELSE IF "debian" \in base THEN "apt"
    ELSE IF "centos" \in base THEN "yum"
    ELSE IF "fedora" \in base THEN "yum"
    ELSE "unknown"

\* Mutant: the file is not read, a fresh record is returned every time.
load_registry_Fresh(file, rootExists) ==
    [raised |-> "", root |-> TRUE, registry |-> EmptyRegistry]

\* load_registry: what it returns or raises, and the root directory after it.
load_registry(file, rootExists) ==
    IF ~file.exists
    THEN IF rootExists
         THEN [raised |-> "FileExistsError", root |-> rootExists,
               registry |-> EmptyRegistry]
         ELSE [raised |-> "", root |-> TRUE, registry |-> EmptyRegistry]
    ELSE [raised |-> "", root |-> rootExists, registry |-> read_json(file.text)]

\* save_registry: the file after it.
save_registry(registry) == [exists |-> TRUE, text |-> write_json(registry)]

\* Mutant: the directory is not created.
makedirs_container_Skipped(dirs, id) == dirs

\* os.makedirs(container_path): the container directories after it.
makedirs_container(dirs, id) == dirs \cup {id}

\* The mkdir argument get_container_version_path is called with.
MkdirArg(cmd) == cmd \in {"create", "run"}

\* Mutant: cmd_create does not test exists.
AfterVersionPath_Unchecked(cmd, exists) ==
    IF cmd = "create" THEN [pc |-> "c_mktemp", result |-> ""]
    ELSE IF ~exists THEN [pc |-> "done", result |-> "VersionNotFound"]
    ELSE IF cmd = "run" THEN [pc |-> "r_exec", result |-> ""]
    ELSE [pc |-> "p_play", result |-> ""]

\* What cmd_create / cmd_run / cmd_replay do with the answer of
\* get_container_version_path: the next position, or the exception raised.
AfterVersionPath(cmd, exists) ==
    IF cmd = "create"
    THEN IF exists THEN [pc |-> "done", result |-> "DuplicateVersion"]
         ELSE [pc |-> "c_mktemp", result |-> ""]
    ELSE IF ~exists THEN [pc |-> "done", result |-> "VersionNotFound"]
    ELSE IF cmd = "run" THEN [pc |-> "r_exec", result |-> ""]
    ELSE [pc |-> "p_play", result |-> ""]

\* Mutant: the image is converted before the session is recorded.
CreateNext_Swapped(stage, ok) ==
    IF ~ok THEN "raise"
    ELSE IF stage = "c_sandbox" THEN "c_convert"
    ELSE IF stage = "c_convert" THEN "c_record"
    ELSE IF stage = "c_record" THEN "c_cleanup"
    ELSE "return"

\* Mutant: the cleanup runs in a finally clause.
CreateNext_Finally(stage, ok) ==
    IF stage = "c_cleanup" THEN IF ok THEN "return" ELSE "raise"
    ELSE IF ~ok THEN "c_cleanup"
    ELSE IF stage = "c_sandbox" THEN "c_record"
    ELSE IF stage = "c_record" THEN "c_convert"
    ELSE "c_cleanup"

\* cmd_create after the step at position stage ended (ok: without raising):
\* the statement that runs next. An exception leaves cmd_create.
CreateNext(stage, ok) ==
    IF ~ok THEN "raise"
    ELSE IF stage = "c_sandbox" THEN "c_record"
    ELSE IF stage = "c_record" THEN "c_convert"
    ELSE IF stage = "c_convert" THEN "c_cleanup"
    ELSE "return"

\* os.listdir(container_path): the children, in increasing order.
RECURSIVE SortedSeq(_)
SortedSeq(S) ==
    IF S = {} THEN <<>>
    ELSE LET m == CHOOSE x \in S : \A y \in S : x <= y
         IN <<m>> \o SortedSeq(S \ {m})
listdir(vd, container_path) ==
    SortedSeq({v \in Versions : <<container_path, v>> \in DOMAIN vd})

\* Mutant: every child directory is printed.
RECURSIVE ListChildren_All(_, _, _, _)
ListChildren_All(vd, container, container_path, children) ==
    IF children = <<>> THEN <<>>
    ELSE <<(<<container, Head(children)>>)>>
         \o ListChildren_All(vd, container, container_path, Tail(children))

\* The inner loop of cmd_list: the lines printed for one container.
RECURSIVE ListChildren(_, _, _, _)
ListChildren(vd, container, container_path, children) ==
    IF children = <<>> THEN <<>>
    ELSE LET child == Head(children)
             rest == ListChildren(vd, container, container_path, Tail(children))
         IN IF vd[<<container_path, child>>].sif # 0
            THEN <<(<<container, child>>)>> \o rest
            ELSE rest

\* The outer loop of cmd_list: the lines printed, in order.
RECURSIVE ListOutput(_, _)
ListOutput(vd, containers) ==
    IF containers = <<>> THEN <<>>
    ELSE LET container == Head(containers)[1]
             container_path == Head(containers)[2]
         IN ListChildren(vd, container, container_path,
                         listdir(vd, container_path))
            \o ListOutput(vd, Tail(containers))

\* ------------------------------------------------------------- invocations
\* The registry as load_registry would read it now, without its side effects.
OnDisk == read_json(registry_json.text).containers
Registered(name) == registry_json.exists /\ DictHas(OnDisk, name)
\* The version directory of (name, version) under the registered directory.
VersionDir(name, version) == <<DictGet(OnDisk, name), version>>
HasVersion(name, version) ==
    Registered(name) /\ VersionDir(name, version) \in DOMAIN vdirs
HasImage(name, version) ==
    HasVersion(name, version) /\ vdirs[VersionDir(name, version)].sif # 0
HasRecording(name, version) ==
    HasVersion(name, version) /\ vdirs[VersionDir(name, version)].cast # 0

NoPrior == [name |-> "", ret |-> 0, writes |-> 0, mkdirs |-> 0, fresh |-> FALSE]

Idle ==
    [pc |-> "idle", cmd |-> "", name |-> "", version |-> EmptyVersion,
     base |-> {}, arg |-> "", pkg |-> "", registry |-> EmptyRegistry,
     container_path |-> 0, temp_dir |-> 0,
     result |-> "", trace |-> <<>>, output |-> <<>>,
     writes |-> 0, mkdirs |-> 0, resolved |-> "no",
     registered |-> FALSE, existed |-> FALSE, imaged |-> FALSE,
     started |-> FALSE, prior |-> NoPrior]

\* History: the container-path resolution of a finished invocation r.
Summary(r) ==
    IF r.pc = "done" /\ r.resolved \in {"returned", "raised"}
    THEN [name |-> r.name,
          ret |-> IF r.resolved = "returned" THEN r.container_path ELSE 0,
          writes |-> r.writes, mkdirs |-> r.mkdirs, fresh |-> ~r.registered]
    ELSE NoPrior

Free(p) == inv[p].pc \in {"idle", "done"}
Running(p) == ~Free(p)

\* The locals of a new invocation of cmd by process p. registered, existed,
\* imaged, started and prior are history: what held when it began. started
\* and prior are recorded only when h (the specification keeps the history of
\* earlier invocations).
Begin(p, h, cmd, name, version, pc, trace) ==
    [Idle EXCEPT !.pc = pc, !.cmd = cmd, !.name = name, !.version = version,
                 !.trace = trace,
                 !.registered = Registered(name),
                 !.existed = HasVersion(name, version),
                 !.imaged = HasImage(name, version),
                 !.started = (cmd # "create"
                              /\ <<name, version>> \in createStarted),
                 !.prior = IF h /\ Summary(inv[p]).name = name
                           THEN Summary(inv[p]) ELSE NoPrior]

\* The invocation ends: it returns (result "ok") or an exception leaves it.
End(r, result) ==
    [r EXCEPT !.pc = "done", !.result = result, !.registry = EmptyRegistry]

Log(r, event) == [r EXCEPT !.trace = Append(r.trace, event)]

TypeOK ==
    /\ root_exists \in BOOLEAN
    /\ registry_json.exists \in BOOLEAN
    /\ cdirs \subseteq SeedId .. MaxContainers
    /\ DOMAIN vdirs \subseteq (SeedId .. MaxContainers) \X Versions
    /\ temp_root \in BOOLEAN
    /\ DOMAIN temp \subseteq 1 .. MaxBuilds
    /\ ids \in 0 .. MaxContainers
    /\ builds \in 0 .. MaxBuilds
    /\ createStarted \subseteq Names \X Versions

Init ==
    /\ root_exists \in BOOLEAN
    /\ registry_json = NoFile
    /\ cdirs = {}
    /\ vdirs = EmptyMap
    /\ temp_root = FALSE
    /\ temp = EmptyMap
    /\ ids = 0
    /\ builds = 0
    /\ inv = [p \in Procs |-> Idle]
    /\ createStarted = {}

\* cmd_create, lines 224-236: the name, and the version given or generated
\* from the clock.
StartCreate(p, h) ==
    /\ Free(p)
    /\ \E name \in Names,
          version \in {IF arg = EmptyVersion THEN generate_version(t) ELSE arg :
                          arg \in {EmptyVersion} \cup Versions, t \in Times} :
         /\ inv' = [inv EXCEPT ![p] =
                       Begin(p, h, "create", name, version, "c_pkg",
                             <<"RESOLVE_VERSION">>)]
         /\ createStarted' = IF h THEN createStarted \cup {<<name, version>>}
                             ELSE createStarted
    /\ UNCHANGED <<fsvars, ids, builds>>

\* cmd_create, lines 238-243: the package manager, from --pkg or from --base.
\* Nothing modelled reads base, arg and pkg again (they go into the template
\* text): they are kept when the decision raises, and, when h, until the next
\* step.
PkgDecision(p, h) ==
    /\ inv[p].pc = "c_pkg"
    /\ \E base \in Bases, arg \in Pkgs :
         LET r == [Log(inv[p], "PKG_DECISION") EXCEPT !.base = base, !.arg = arg]
             package_manager ==
                 IF arg = "" THEN get_package_manager(base) ELSE arg
         IN inv' = [inv EXCEPT ![p] =
                       IF arg = "" /\ package_manager = "unknown"
                       THEN End(r, "UnknownPackageManager")
                       ELSE IF h
                       THEN [r EXCEPT !.pc = "gcp_load",
                                      !.pkg = package_manager]
                       ELSE [inv[p] EXCEPT !.pc = "gcp_load",
                                           !.trace = r.trace]]
    /\ UNCHANGED <<fsvars, ids, builds, createStarted>>

\* cmd_run, lines 273-279.
StartRun(p, h) ==
    /\ Free(p)
    /\ \E name \in Names, version \in Versions :
         inv' = [inv EXCEPT ![p] =
                    Begin(p, h, "run", name, version, "gcp_load", <<>>)]
    /\ UNCHANGED <<fsvars, ids, builds, createStarted>>

\* cmd_replay, lines 325-331.
StartReplay(p, h) ==
    /\ Free(p)
    /\ \E name \in Names, version \in Versions :
         inv' = [inv EXCEPT ![p] =
                    Begin(p, h, "replay", name, version, "gcp_load", <<>>)]
    /\ UNCHANGED <<fsvars, ids, builds, createStarted>>

\* cmd_list, lines 305-309.
StartList(p, h) ==
    /\ Free(p)
    /\ inv' = [inv EXCEPT ![p] =
                  Begin(p, h, "list", "", EmptyVersion, "l_load", <<>>)]
    /\ UNCHANGED <<fsvars, ids, builds, createStarted>>

\* get_container_path, lines 99-103: load the registry, and return the stored
\* path of a name that is a key.
GcpLoad(p) ==
    /\ inv[p].pc = "gcp_load"
    /\ LET r == [Log(inv[p], "LOAD_REGISTRY") EXCEPT
                     !.base = {}, !.arg = "", !.pkg = ""]
           l == load_registry(registry_json, root_exists)
       IN /\ root_exists' = l.root
          /\ inv' = [inv EXCEPT ![p] =
                IF l.raised # ""
                THEN End([r EXCEPT !.resolved = "raised"], l.raised)
                ELSE IF DictHas(l.registry.containers, r.name)
                THEN [r EXCEPT !.pc = "gvp_check", !.registry = EmptyRegistry,
                               !.resolved = "returned",
                               !.container_path =
                                   DictGet(l.registry.containers, r.name)]
                ELSE [r EXCEPT !.pc = "gcp_mkdir", !.registry = l.registry]]
    /\ UNCHANGED <<registry_json, cdirs, vdirs, temp_root, temp, ids, builds,
                   createStarted>>

\* get_container_path, lines 106-110: a new identifier and its directory.
GcpMkdir(p) ==
    /\ inv[p].pc = "gcp_mkdir"
    /\ ids < MaxContainers
    /\ LET container_id == ids + 1
           r == Log(inv[p], "MKDIR_CONTAINER")
       IN /\ ids' = container_id
          /\ cdirs' = IF container_id \in cdirs THEN cdirs
                      ELSE makedirs_container(cdirs, container_id)
          /\ inv' = [inv EXCEPT ![p] =
                IF container_id \in cdirs
                THEN End([r EXCEPT !.resolved = "raised"], "FileExistsError")
                ELSE [r EXCEPT !.pc = "gcp_save",
                               !.container_path = container_id,
                               !.mkdirs = r.mkdirs + 1]]
    /\ UNCHANGED <<root_exists, registry_json, vdirs, temp_root, temp, builds,
                   createStarted>>

\* Mutant: nothing is written when the name is in the registry on disk at
\* the time of the save.
GcpSave_IfAbsent(p) ==
    /\ inv[p].pc = "gcp_save"
    /\ LET r == Log(inv[p], "SAVE_REGISTRY")
           registry == [r.registry EXCEPT !.containers =
                           DictSet(r.registry.containers, r.name,
                                   r.container_path)]
       IN /\ root_exists' = TRUE
          /\ registry_json' =
                IF registry_json.exists
                   /\ DictHas(read_json(registry_json.text).containers, r.name)
                THEN registry_json
                ELSE save_registry(registry)
          /\ inv' = [inv EXCEPT ![p] =
                [r EXCEPT !.pc = "gvp_check", !.registry = EmptyRegistry,
                          !.resolved = "returned", !.writes = r.writes + 1]]
    /\ UNCHANGED <<cdirs, vdirs, temp_root, temp, ids, builds, createStarted>>

\* Mutant: the name is inserted into the registry as it is on disk at the
\* time of the save.
GcpSave_Merge(p) ==
    /\ inv[p].pc = "gcp_save"
    /\ LET r == Log(inv[p], "SAVE_REGISTRY")
           registry == [version |-> r.registry.version,
                        containers |->
                            DictSet(read_json(registry_json.text).containers,
                                    r.name, r.container_path)]
       IN /\ root_exists' = TRUE
          /\ registry_json' = save_registry(registry)
          /\ inv' = [inv EXCEPT ![p] =
                [r EXCEPT !.pc = "gvp_check", !.registry = EmptyRegistry,
                          !.resolved = "returned", !.writes = r.writes + 1]]
    /\ UNCHANGED <<cdirs, vdirs, temp_root, temp, ids, builds, createStarted>>

\* get_container_path, lines 113-116: insert the name, save, return the path.
GcpSave(p) ==
    /\ inv[p].pc = "gcp_save"
    /\ LET r == Log(inv[p], "SAVE_REGISTRY")
           registry == [r.registry EXCEPT !.containers =
                           DictSet(r.registry.containers, r.name,
                                   r.container_path)]
       IN /\ root_exists' = TRUE
          /\ registry_json' = save_registry(registry)
          /\ inv' = [inv EXCEPT ![p] =
                [r EXCEPT !.pc = "gvp_check", !.registry = EmptyRegistry,
                          !.resolved = "returned", !.writes = r.writes + 1]]
    /\ UNCHANGED <<cdirs, vdirs, temp_root, temp, ids, builds, createStarted>>

\* Mutant: the test is on container.sif in the version directory.
GvpCheck_ImageTest(p) ==
    /\ inv[p].pc = "gvp_check"
    /\ LET r == [Log(inv[p], "CHECK_VERSION") EXCEPT !.prior = NoPrior]
           exists == /\ <<r.container_path, r.version>> \in DOMAIN vdirs
                     /\ vdirs[<<r.container_path, r.version>>].sif # 0
           after == AfterVersionPath(r.cmd, exists)
       IN inv' = [inv EXCEPT ![p] =
             IF ~exists /\ MkdirArg(r.cmd)
             THEN [r EXCEPT !.pc = "gvp_mkdir"]
             ELSE IF after.pc = "done" THEN End(r, after.result)
             ELSE [r EXCEPT !.pc = after.pc]]
    /\ UNCHANGED <<fsvars, ids, builds, createStarted>>

\* get_container_version_path, lines 120-127: the existence test, and the
\* answer when the directory exists or is not to be made.
GvpCheck(p) ==
    /\ inv[p].pc = "gvp_check"
    /\ LET r == [Log(inv[p], "CHECK_VERSION") EXCEPT !.prior = NoPrior]
           exists == <<r.container_path, r.version>> \in DOMAIN vdirs
           after == AfterVersionPath(r.cmd, exists)
       IN inv' = [inv EXCEPT ![p] =
             IF ~exists /\ MkdirArg(r.cmd)
             THEN [r EXCEPT !.pc = "gvp_mkdir"]
             ELSE IF after.pc = "done" THEN End(r, after.result)
             ELSE [r EXCEPT !.pc = after.pc]]
    /\ UNCHANGED <<fsvars, ids, builds, createStarted>>

\* Mutant: the directory is made as with exist_ok=True.
GvpMkdir_ExistOk(p) ==
    /\ inv[p].pc = "gvp_mkdir"
    /\ LET r == Log(inv[p], "ALLOCATE_VERSION")
           version_path == <<r.container_path, r.version>>
           raised == IF r.container_path \notin cdirs THEN "FileNotFoundError"
                     ELSE ""
           after == AfterVersionPath(r.cmd, FALSE)
       IN /\ vdirs' = IF raised # "" \/ version_path \in DOMAIN vdirs THEN vdirs
                      ELSE Put(vdirs, version_path, [cast |-> 0, sif |-> 0])
          /\ inv' = [inv EXCEPT ![p] =
                IF raised # "" THEN End(r, raised)
                ELSE IF after.pc = "done" THEN End(r, after.result)
                ELSE [r EXCEPT !.pc = after.pc]]
    /\ UNCHANGED <<root_exists, registry_json, cdirs, temp_root, temp, ids, builds,
                   createStarted>>

\* get_container_version_path, lines 123-125: os.mkdir of the version
\* directory, then the answer "did not exist".
GvpMkdir(p) ==
    /\ inv[p].pc = "gvp_mkdir"
    /\ LET r == Log(inv[p], "ALLOCATE_VERSION")
           version_path == <<r.container_path, r.version>>
           raised == IF version_path \in DOMAIN vdirs THEN "FileExistsError"
                     ELSE IF r.container_path \notin cdirs
                     THEN "FileNotFoundError"
                     ELSE ""
           after == AfterVersionPath(r.cmd, FALSE)
       IN /\ vdirs' = IF raised # "" THEN vdirs
                      ELSE Put(vdirs, version_path, [cast |-> 0, sif |-> 0])
          /\ inv' = [inv EXCEPT ![p] =
                IF raised # "" THEN End(r, raised)
                ELSE IF after.pc = "done" THEN End(r, after.result)
                ELSE [r EXCEPT !.pc = after.pc]]
    /\ UNCHANGED <<root_exists, registry_json, cdirs, temp_root, temp, ids, builds,
                   createStarted>>

\* build_container_sandbox, lines 187-195: the new temporary directory and
\* the template file in it.
BuildWorkspace(p) ==
    /\ inv[p].pc = "c_mktemp"
    /\ builds < MaxBuilds
    /\ LET temp_dir == builds + 1
           r == Log(Log(inv[p], "GENERATE_SPEC"), "MKTEMP")
       IN /\ builds' = temp_dir
          /\ temp_root' = TRUE
          /\ temp' = Put(temp, temp_dir, {"template"})
          /\ inv' = [inv EXCEPT ![p] =
                [r EXCEPT !.pc = "c_sandbox", !.temp_dir = temp_dir]]
    /\ UNCHANGED <<root_exists, registry_json, cdirs, vdirs, ids,
                   createStarted>>

\* The position after a step of cmd_create, and the locals there.
Advance(r, ok) ==
    LET next == CreateNext(r.pc, ok)
    IN IF next = "raise" THEN End(r, "ExternalToolFailure")
       ELSE IF next = "return" THEN End(r, "ok")
       ELSE [r EXCEPT !.pc = next]

\* build_container_sandbox, line 200: the engine builds the sandbox, or exits
\* non-zero.
BuildSandbox(p) ==
    /\ inv[p].pc = "c_sandbox"
    /\ \E ok \in BOOLEAN :
         LET r == Log(inv[p], "BUILD_SANDBOX")
         IN /\ temp' = IF ok THEN [temp EXCEPT ![r.temp_dir] = @ \cup {"sandbox"}]
                       ELSE temp
            /\ inv' = [inv EXCEPT ![p] = Advance(r, ok)]
    /\ UNCHANGED <<root_exists, registry_json, cdirs, vdirs, temp_root, ids, builds,
                   createStarted>>

\* cmd_create, line 263: the recorder runs the session and writes
\* recording.cast; when it raises, the file may or may not have been written.
RecordSession(p) ==
    /\ inv[p].pc = "c_record"
    /\ \E ok \in BOOLEAN, wrote \in BOOLEAN :
         LET r == Log(inv[p], "RECORD_SESSION")
             version_path == <<r.container_path, r.version>>
         IN /\ ok => wrote
            /\ vdirs' = IF wrote /\ version_path \in DOMAIN vdirs
                        THEN [vdirs EXCEPT ![version_path].cast = r.temp_dir]
                        ELSE vdirs
            /\ inv' = [inv EXCEPT ![p] = Advance(r, ok)]
    /\ UNCHANGED <<root_exists, registry_json, cdirs, temp_root, temp, ids, builds,
                   createStarted>>

\* convert_container_to_sif, lines 214-216: the engine writes container.sif,
\* or exits non-zero.
ConvertImage(p) ==
    /\ inv[p].pc = "c_convert"
    /\ \E ok \in BOOLEAN :
         LET r == Log(inv[p], "CONVERT_IMAGE")
             version_path == <<r.container_path, r.version>>
         IN /\ vdirs' = IF ok /\ version_path \in DOMAIN vdirs
                        THEN [vdirs EXCEPT ![version_path].sif = r.temp_dir]
                        ELSE vdirs
            /\ inv' = [inv EXCEPT ![p] = Advance(r, ok)]
    /\ UNCHANGED <<root_exists, registry_json, cdirs, temp_root, temp, ids, builds,
                   createStarted>>

\* cleanup_temporary_path, line 220: rm -rf of the temporary directory, or a
\* non-zero exit; then cmd_create returns.
Cleanup(p) ==
    /\ inv[p].pc = "c_cleanup"
    /\ \E ok \in BOOLEAN :
         LET r == Log(inv[p], "CLEANUP")
             after == Advance(r, ok)
         IN /\ temp' = IF ok THEN Drop(temp, r.temp_dir) ELSE temp
            /\ inv' = [inv EXCEPT ![p] = after]
    /\ UNCHANGED <<root_exists, registry_json, cdirs, vdirs, temp_root, ids, builds,
                   createStarted>>

\* cmd_run, lines 290-293: singularity run of the image; it exits non-zero
\* when the image file is missing.
RunExec(p) ==
    /\ inv[p].pc = "r_exec"
    /\ LET r == Log(inv[p], "ENGINE_RUN")
           version_path == <<r.container_path, r.version>>
           image == version_path \in DOMAIN vdirs /\ vdirs[version_path].sif # 0
       IN \E ok \in {b \in BOOLEAN : b => image} :
            inv' = [inv EXCEPT ![p] =
                       End(r, IF ok THEN "ok" ELSE "ExternalToolFailure")]
    /\ UNCHANGED <<fsvars, ids, builds, createStarted>>

\* cmd_replay, lines 344-349: the player opens and plays the recording; it
\* raises when the file is missing.
ReplayPlay(p) ==
    /\ inv[p].pc = "p_play"
    /\ LET r == Log(inv[p], "PLAY")
           version_path == <<r.container_path, r.version>>
           cast == version_path \in DOMAIN vdirs /\ vdirs[version_path].cast # 0
       IN \E ok \in {b \in BOOLEAN : b => cast} :
            inv' = [inv EXCEPT ![p] =
                       End(r, IF ok THEN "ok" ELSE "ExternalToolFailure")]
    /\ UNCHANGED <<fsvars, ids, builds, createStarted>>

\* cmd_list, line 312.
ListLoad(p) ==
    /\ inv[p].pc = "l_load"
    /\ LET r == Log(inv[p], "LOAD_REGISTRY")
           l == load_registry(registry_json, root_exists)
       IN /\ root_exists' = l.root
          /\ inv' = [inv EXCEPT ![p] =
                IF l.raised # "" THEN End(r, l.raised)
                ELSE [r EXCEPT !.pc = "l_scan", !.registry = l.registry]]
    /\ UNCHANGED <<registry_json, cdirs, vdirs, temp_root, temp, ids, builds,
                   createStarted>>

\* cmd_list, lines 315-321: the two loops and what they print.
ListScan(p) ==
    /\ inv[p].pc = "l_scan"
    /\ LET r == Log(inv[p], "SCAN")
           containers == r.registry.containers
           missing == \E i \in 1 .. Len(containers) : containers[i][2] \notin cdirs
       IN inv' = [inv EXCEPT ![p] =
             IF missing THEN End(r, "FileNotFoundError")
             ELSE End([r EXCEPT !.output = ListOutput(vdirs, containers)], "ok")]
    /\ UNCHANGED <<fsvars, ids, builds, createStarted>>

\* The process is interrupted (a signal) at its current position.
Abort(p) ==
    /\ Running(p)
    /\ inv' = [inv EXCEPT ![p] = Idle]
    /\ UNCHANGED <<fsvars, ids, builds, createStarted>>

Step(p, h) ==
    \/ StartCreate(p, h)
    \/ PkgDecision(p, h)
    \/ StartRun(p, h)
    \/ StartReplay(p, h)
    \/ StartList(p, h)
    \/ GcpLoad(p)
    \/ GcpMkdir(p)
    \/ GcpSave(p)
    \/ GvpCheck(p)
    \/ GvpMkdir(p)
    \/ BuildWorkspace(p)
    \/ BuildSandbox(p)
    \/ RecordSession(p)
    \/ ConvertImage(p)
    \/ Cleanup(p)
    \/ RunExec(p)
    \/ ReplayPlay(p)
    \/ ListLoad(p)
    \/ ListScan(p)
    \/ Abort(p)

\* One invocation at a time: the commands run one after the other.
Next == \E p \in SeqProcs : Step(p, FALSE)

Spec == Init /\ [][Next]_vars

\* The same, with the history of earlier invocations recorded (createStarted,
\* prior).
NextHistory == \E p \in SeqProcs : Step(p, TRUE)

SpecHistory == Init /\ [][NextHistory]_vars

\* The create command alone, one invocation after the other, with the
\* arguments --base and --pkg and the package manager chosen kept until
\* get_container_path is entered.
NextCreate ==
    \E p \in SeqProcs :
        \/ StartCreate(p, FALSE)
        \/ PkgDecision(p, TRUE)
        \/ GcpLoad(p)
        \/ GcpMkdir(p)
        \/ GcpSave(p)
        \/ GvpCheck(p)
        \/ GvpMkdir(p)
        \/ BuildWorkspace(p)
        \/ BuildSandbox(p)
        \/ RecordSession(p)
        \/ ConvertImage(p)
        \/ Cleanup(p)
        \/ Abort(p)

SpecCreate == Init /\ [][NextCreate]_vars

\* Simultaneous invocations: every process of Procs runs one command, its
\* steps interleaved with the other's at every file-system call. The root is
\* one that earlier invocations have used: registry.json exists and holds
\* SeedName (a name none of these invocations asks for), registered with the
\* identifier SeedId; on some roots "alpha" is registered too, with the first
\* identifier generated. No version has been made yet.
SeedRegistry == [EmptyRegistry EXCEPT !.containers = <<(<<SeedName, SeedId>>)>>]

InitRace ==
    /\ root_exists = TRUE
    /\ \E known \in BOOLEAN :
         /\ registry_json =
                save_registry(IF known
                              THEN [SeedRegistry EXCEPT !.containers =
                                       DictSet(@, "alpha", 1)]
                              ELSE SeedRegistry)
         /\ cdirs = IF known THEN {SeedId, 1} ELSE {SeedId}
         /\ ids = IF known THEN 1 ELSE 0
    /\ vdirs = EmptyMap
    /\ temp_root = FALSE
    /\ temp = EmptyMap
    /\ builds = 0
    /\ inv = [p \in Procs |-> Idle]
    /\ createStarted = {}

RaceStep(p) ==
    \/ StartCreate(p, FALSE)
    \/ PkgDecision(p, FALSE)
    \/ StartRun(p, FALSE)
    \/ StartReplay(p, FALSE)
    \/ StartList(p, FALSE)
    \/ GcpLoad(p)
    \/ GcpMkdir(p)
    \/ GcpSave(p)
    \/ GvpCheck(p)
    \/ GvpMkdir(p)
    \/ BuildWorkspace(p)
    \/ BuildSandbox(p)
    \/ RecordSession(p)
    \/ ConvertImage(p)
    \/ Cleanup(p)
    \/ RunExec(p)
    \/ ReplayPlay(p)
    \/ ListLoad(p)
    \/ ListScan(p)

NextRace == \E p \in Procs : inv[p].pc # "done" /\ RaceStep(p)

SpecRace == InitRace /\ [][NextRace]_vars

\* save_registry followed by load_registry, on their own: process 1 holds a
\* record (any dict of names without a repeated key, any version tag) and
\* saves it on a root that does not exist, exists without registry.json, or
\* holds an earlier registry.json; then another process loads.
RegistryNames == Names \cup {SeedName}
Paths == SeedId .. MaxContainers
Dicts ==
    {d \in UNION {[1 .. n -> RegistryNames \X Paths] :
                     n \in 0 .. Cardinality(RegistryNames)} :
        \A i, j \in 1 .. Len(d) : d[i][1] = d[j][1] => i = j}
Records == [version : {REGISTRY_VERSION, REGISTRY_VERSION + 1}, containers : Dicts]

InitRoundTrip ==
    /\ root_exists \in BOOLEAN
    /\ registry_json \in {NoFile} \cup {f \in {save_registry(SeedRegistry)} : root_exists}
    /\ cdirs = {}
    /\ vdirs = EmptyMap
    /\ temp_root = FALSE
    /\ temp = EmptyMap
    /\ ids = 0
    /\ builds = 0
    /\ \E record \in Records :
         inv = [p \in Procs |->
                  IF p = 1 THEN [Idle EXCEPT !.pc = "rt_save", !.registry = record]
                  ELSE Idle]
    /\ createStarted = {}

\* save_registry(env, registry), lines 89-94.
SaveRecord(p) ==
    /\ inv[p].pc = "rt_save"
    /\ root_exists' = TRUE
    /\ registry_json' = save_registry(inv[p].registry)
    /\ inv' = [inv EXCEPT ![p].pc = "rt_saved", ![p].writes = 1]
    /\ UNCHANGED <<cdirs, vdirs, temp_root, temp, ids, builds, createStarted>>

\* load_registry(env), lines 75-85, after the save.
LoadRecord(q) ==
    /\ inv[q].pc = "idle"
    /\ \E p \in Procs : inv[p].pc = "rt_saved"
    /\ LET l == load_registry(registry_json, root_exists)
       IN /\ root_exists' = l.root
          /\ inv' = [inv EXCEPT ![q].pc = "rt_loaded",
                                ![q].result = l.raised,
                                ![q].registry = l.registry]
    /\ UNCHANGED <<registry_json, cdirs, vdirs, temp_root, temp, ids, builds,
                   createStarted>>

NextRoundTrip == \E p \in Procs : SaveRecord(p) \/ LoadRecord(p)

SpecRoundTrip == InitRoundTrip /\ [][NextRoundTrip]_vars

\* ------------------------------------------------------------------ claims
Events(r) == {r.trace[i] : i \in 1 .. Len(r.trace)}
Once(r) == \A i, j \in 1 .. Len(r.trace) : r.trace[i] = r.trace[j] => i = j
BuildEvents ==
    {"GENERATE_SPEC", "MKTEMP", "BUILD_SANDBOX", "RECORD_SESSION",
     "CONVERT_IMAGE", "CLEANUP"}
BuildPositions == {"c_mktemp", "c_sandbox", "c_record", "c_convert", "c_cleanup"}
Count(seq, x) == Cardinality({i \in 1 .. Len(seq) : seq[i] = x})

\* C1 (version uniqueness): a create that ends normally leaves recording.cast
\* and container.sif in its version directory; from then on the registry
\* keeps the name's path and no step of any command changes that version
\* directory; and a create(C, V) begun while the image of (C, V) is on disk
\* runs no build step (no temporary workspace, no engine, no recorder),
\* changes no version directory and no temporary workspace, and, when it
\* has a recognised or explicit package manager, ends with DuplicateVersion.
C1_VersionUniqueness ==
    /\ [](\A p \in Procs :
            inv[p].cmd = "create" /\ inv[p].pc = "done" /\ inv[p].result = "ok"
            => /\ HasImage(inv[p].name, inv[p].version)
               /\ HasRecording(inv[p].name, inv[p].version))
    /\ [][\/ vdirs' = vdirs /\ registry_json' = registry_json
          \/ \A n \in Names, v \in Versions :
               HasImage(n, v)
               => /\ HasImage(n, v)'
                  /\ VersionDir(n, v)' = VersionDir(n, v)
                  /\ vdirs'[VersionDir(n, v)] = vdirs[VersionDir(n, v)]]_vars
    /\ [](\A p \in Procs :
            inv[p].cmd = "create" /\ inv[p].imaged
            => /\ inv[p].pc \notin BuildPositions
               /\ Events(inv[p]) \cap BuildEvents = {}
               /\ inv[p].temp_dir = 0
               /\ (inv[p].pc = "done"
                   => inv[p].result \in {"DuplicateVersion",
                                         "UnknownPackageManager"}))
    /\ [][\A p \in Procs :
            inv[p].cmd = "create" /\ inv[p].imaged /\ Running(p)
            => vdirs' = vdirs /\ temp' = temp /\ temp_root' = temp_root
               /\ builds' = builds]_vars

\* C1 witness: a second create of a version whose image exists has ended with
\* DuplicateVersion.
C1_Witness ==
    \E p \in Procs :
        /\ inv[p].cmd = "create" /\ inv[p].imaged
        /\ inv[p].pc = "done" /\ inv[p].result = "DuplicateVersion"
        /\ HasImage(inv[p].name, inv[p].version)
        /\ HasRecording(inv[p].name, inv[p].version)

\* C2 (replay requires prior build), as the specification states it: a replay
\* begun while (name, version) has no version directory creates no directory
\* (environment root, container directory, version directory), leaves the
\* registry file as it was, and ends with VersionNotFound.
C2_ReplayNoSideEffect ==
    [][\A p \in Procs :
         inv[p].cmd = "replay" /\ Running(p) /\ ~inv[p].existed
         => /\ root_exists' = root_exists
            /\ cdirs' = cdirs
            /\ DOMAIN vdirs' = DOMAIN vdirs
            /\ registry_json' = registry_json
            /\ (inv'[p].pc = "done" => inv'[p].result = "VersionNotFound")]_vars

\* C3 (run of a never-created version), as the specification states it,
\* under SpecHistory: a run begun while no create was ever
\* started for (name, version) never reaches the engine's run facility and
\* ends with VersionNotFound. (An end with FileExistsError, which load_registry
\* raises, is the matter of C5 and is left out here.)
C3_RunNeverCreated ==
    \A p \in Procs :
        inv[p].cmd = "run" /\ ~inv[p].started
        => /\ inv[p].pc # "r_exec"
           /\ "ENGINE_RUN" \notin Events(inv[p])
           /\ (inv[p].pc = "done" /\ inv[p].result # "FileExistsError"
               => inv[p].result = "VersionNotFound")

\* C4 (run without an image), as the specification states it: a run begun
\* while the version directory exists without container.sif never reaches the
\* engine's run facility and ends with VersionNotFound.
C4_RunMissingImage ==
    \A p \in Procs :
        inv[p].cmd = "run" /\ inv[p].existed /\ ~inv[p].imaged
        => /\ inv[p].pc # "r_exec"
           /\ "ENGINE_RUN" \notin Events(inv[p])
           /\ (inv[p].pc = "done" => inv[p].result = "VersionNotFound")

\* C5 (load on an absent registry file), as the specification states it: an
\* invocation that has loaded the registry while registry.json is absent did
\* not fail in the load, the root directory exists afterwards, and a list
\* ends normally, printing nothing.
C5_LoadAbsent ==
    \A p \in Procs :
        "LOAD_REGISTRY" \in Events(inv[p]) /\ ~registry_json.exists
        => /\ inv[p].result # "FileExistsError"
           /\ root_exists
           /\ (inv[p].cmd = "list" /\ inv[p].pc = "done"
               => inv[p].result = "ok" /\ inv[p].output = <<>>)

\* C6 (registry invariant): in every state, also in the middle of an
\* invocation and after an interrupted one, every name of the persisted
\* registry maps to a container directory that exists.
C6_RegistryInvariant ==
    registry_json.exists
    => \A i \in 1 .. Len(OnDisk) : OnDisk[i][2] \in cdirs

\* C6 witness: a name is registered, and an interrupted resolution has left a
\* container directory that no name maps to.
C6_Witness ==
    /\ registry_json.exists
    /\ Len(OnDisk) >= 1
    /\ \E id \in cdirs : \A i \in 1 .. Len(OnDisk) : OnDisk[i][2] # id
    /\ \A p \in Procs : Free(p)

\* C7 (idempotent resolution), as the specification states it, under
\* SpecHistory: when two invocations in a row have resolved the same
\* name, which was not registered before the first, both calls returned the
\* same path, with one registry write and one directory creation in total.
C7_IdempotentResolution ==
    \A p \in Procs :
        /\ inv[p].prior.name # "" /\ inv[p].prior.name = inv[p].name
        /\ inv[p].prior.fresh
        /\ inv[p].resolved # "no"
        => /\ inv[p].prior.ret # 0
           /\ inv[p].resolved = "returned"
           /\ inv[p].container_path = inv[p].prior.ret
           /\ inv[p].prior.writes + inv[p].writes = 1
           /\ inv[p].prior.mkdirs + inv[p].mkdirs = 1

\* C8 (listing correctness): a list that has ended has printed the pair
\* (name, version) once when the version directory under the registered
\* container directory holds container.sif, and not at all otherwise; it has
\* printed nothing else.
C8_ListingCorrect ==
    \A p \in Procs :
        inv[p].cmd = "list" /\ inv[p].pc = "done"
        => /\ \A n \in Names, v \in Versions :
                Count(inv[p].output, <<n, v>>) = IF HasImage(n, v) THEN 1 ELSE 0
           /\ \A i \in 1 .. Len(inv[p].output) :
                inv[p].output[i] \in Names \X Versions

\* C8 witness: a list has printed a version while another version directory,
\* without image, is on disk.
C8_Witness ==
    \E p \in Procs :
        /\ inv[p].cmd = "list" /\ inv[p].pc = "done" /\ inv[p].result = "ok"
        /\ inv[p].output # <<>>
        /\ \E n \in Names, v \in Versions : HasVersion(n, v) /\ ~HasImage(n, v)

\* The stage an event of cmd_create belongs to, as the specification numbers
\* the stages: the package-manager decision is part of GENERATE_SPEC (3),
\* after ALLOCATE_VERSION (2).
SpecStage(e) ==
    IF e = "RESOLVE_VERSION" THEN 1
    ELSE IF e \in {"LOAD_REGISTRY", "MKDIR_CONTAINER", "SAVE_REGISTRY",
                   "CHECK_VERSION", "ALLOCATE_VERSION"} THEN 2
    ELSE IF e \in {"PKG_DECISION", "GENERATE_SPEC"} THEN 3
    ELSE IF e \in {"MKTEMP", "BUILD_SANDBOX"} THEN 4
    ELSE IF e = "RECORD_SESSION" THEN 5
    ELSE IF e = "CONVERT_IMAGE" THEN 6
    ELSE 7

\* The same with the package-manager decision as a stage of its own (2),
\* between RESOLVE_VERSION (1) and ALLOCATE_VERSION (3).
CodeStage(e) ==
    IF e = "RESOLVE_VERSION" THEN 1
    ELSE IF e = "PKG_DECISION" THEN 2
    ELSE IF e \in {"LOAD_REGISTRY", "MKDIR_CONTAINER", "SAVE_REGISTRY",
                   "CHECK_VERSION", "ALLOCATE_VERSION"} THEN 3
    ELSE IF e = "GENERATE_SPEC" THEN 4
    ELSE IF e \in {"MKTEMP", "BUILD_SANDBOX"} THEN 5
    ELSE IF e = "RECORD_SESSION" THEN 6
    ELSE IF e = "CONVERT_IMAGE" THEN 7
    ELSE 8

\* The events of r are in the order of their stages: no event twice, no stage
\* after a later one, the first stage first.
StagesInOrder(r, Stage(_)) ==
    /\ Once(r)
    /\ r.trace # <<>> => r.trace[1] = "RESOLVE_VERSION"
    /\ \A i, j \in 1 .. Len(r.trace) : i < j => Stage(r.trace[i]) <= Stage(r.trace[j])

\* C9 (build stage order), as the specification states it: the stages of a
\* create run in the order RESOLVE_VERSION, ALLOCATE_VERSION, GENERATE_SPEC
\* (with the package-manager decision), BUILD_SANDBOX, RECORD_SESSION,
\* CONVERT_IMAGE, CLEANUP, and a create that has failed with
\* UnknownPackageManager has resolved the container in the registry and made
\* the version directory before.
C9_SpecStageOrder ==
    \A p \in Procs :
        inv[p].cmd = "create"
        => /\ StagesInOrder(inv[p], SpecStage)
           /\ (inv[p].result = "UnknownPackageManager"
               => HasVersion(inv[p].name, inv[p].version))

\* C9 amended: the stages of a create run in the order RESOLVE_VERSION,
\* package-manager decision, ALLOCATE_VERSION, GENERATE_SPEC, BUILD_SANDBOX,
\* RECORD_SESSION, CONVERT_IMAGE, CLEANUP, each event at most once and no
\* stage revisited or entered before the stage before it; a create that has
\* failed with UnknownPackageManager has done nothing after the decision: it
\* has not read the registry, and has registered no name and made no version
\* directory.
C9_CodeStageOrder ==
    \A p \in Procs :
        inv[p].cmd = "create"
        => /\ StagesInOrder(inv[p], CodeStage)
           /\ \A i \in 1 .. Len(inv[p].trace) - 1 :
                CodeStage(inv[p].trace[i + 1]) <= CodeStage(inv[p].trace[i]) + 1
           /\ (inv[p].result = "UnknownPackageManager"
               => /\ inv[p].trace = <<"RESOLVE_VERSION", "PKG_DECISION">>
                  /\ inv[p].arg = ""
                  /\ ~inv[p].registered => ~Registered(inv[p].name)
                  /\ ~inv[p].existed
                     => ~HasVersion(inv[p].name, inv[p].version))

\* C9 witness: a create has failed with UnknownPackageManager on a root that
\* does not exist yet.
C9_Witness ==
    \E p \in Procs :
        /\ inv[p].cmd = "create" /\ inv[p].pc = "done"
        /\ inv[p].result = "UnknownPackageManager"
        /\ ~root_exists /\ cdirs = {} /\ ~registry_json.exists

\* The version directory of the invocation r, and what its build has written.
VersionPath(r) == <<r.container_path, r.version>>
Recorded(r) ==
    VersionPath(r) \in DOMAIN vdirs /\ vdirs[VersionPath(r)].cast = r.temp_dir
Converted(r) ==
    VersionPath(r) \in DOMAIN vdirs /\ vdirs[VersionPath(r)].sif = r.temp_dir

\* C10 (fail-fast, no cleanup): in a create that has made its temporary
\* workspace, no step is retried; a stage has run only if the stage before it
\* succeeded (the recorder only on a built sandbox, the conversion only after
\* the recording was written, the cleanup only after the image was written);
\* when the create has ended, the cleanup has run if and only if the
\* conversion succeeded, and otherwise the temporary workspace is still on
\* disk. A create that has made no workspace has run none of these stages.
C10_FailFast ==
    \A p \in Procs :
        inv[p].cmd = "create"
        => /\ Once(inv[p])
           /\ inv[p].temp_dir = 0 => Events(inv[p]) \cap BuildEvents = {}
           /\ inv[p].temp_dir # 0
              => /\ "RECORD_SESSION" \in Events(inv[p])
                    => \/ inv[p].temp_dir \notin DOMAIN temp
                       \/ "sandbox" \in temp[inv[p].temp_dir]
                 /\ "RECORD_SESSION" \notin Events(inv[p]) => ~Recorded(inv[p])
                 /\ "CONVERT_IMAGE" \in Events(inv[p]) => Recorded(inv[p])
                 /\ "CONVERT_IMAGE" \notin Events(inv[p]) => ~Converted(inv[p])
                 /\ "CLEANUP" \in Events(inv[p]) => Converted(inv[p])
                 /\ inv[p].pc = "done"
                    => /\ "CLEANUP" \in Events(inv[p]) <=> Converted(inv[p])
                       /\ ~Converted(inv[p]) => inv[p].temp_dir \in DOMAIN temp
                       /\ inv[p].result \in {"ok", "ExternalToolFailure"}

\* C10 witness: a create has ended on a failed conversion, and its temporary
\* workspace, with the sandbox, is still on disk.
C10_Witness ==
    \E p \in Procs :
        /\ inv[p].cmd = "create" /\ inv[p].pc = "done"
        /\ inv[p].result = "ExternalToolFailure"
        /\ inv[p].trace[Len(inv[p].trace)] = "CONVERT_IMAGE"
        /\ inv[p].temp_dir \in DOMAIN temp
        /\ "sandbox" \in temp[inv[p].temp_dir]
        /\ ~Converted(inv[p])

\* The lines a list started now would print: cmd_list on the present files,
\* <<>> when its load raises.
ListNow ==
    IF load_registry(registry_json, root_exists).raised # "" THEN <<>>
    ELSE ListOutput(vdirs, load_registry(registry_json, root_exists).registry.containers)

\* C11 (successful create postcondition): when a create has returned, the
\* registry on disk maps its name to the container directory it used, which
\* exists; the version directory in it holds the recording.cast and the
\* container.sif written by this build; the temporary workspace of this build
\* is gone; and a list run now loads the registry without raising and prints
\* the pair (name, version) once.
C11_CreatePostcondition ==
    \A p \in Procs :
        inv[p].cmd = "create" /\ inv[p].pc = "done" /\ inv[p].result = "ok"
        => /\ Registered(inv[p].name)
           /\ DictGet(OnDisk, inv[p].name) = inv[p].container_path
           /\ inv[p].container_path \in cdirs
           /\ inv[p].temp_dir # 0
           /\ Recorded(inv[p])
           /\ Converted(inv[p])
           /\ inv[p].temp_dir \notin DOMAIN temp
           /\ load_registry(registry_json, root_exists).raised = ""
           /\ \A i \in 1 .. Len(OnDisk) : OnDisk[i][2] \in cdirs
           /\ Count(ListNow, <<inv[p].name, inv[p].version>>) = 1

\* C11 witness: a create has returned, for a name that an earlier invocation
\* had registered.
C11_Witness ==
    \E p \in Procs :
        /\ inv[p].cmd = "create" /\ inv[p].pc = "done" /\ inv[p].result = "ok"
        /\ inv[p].registered
        /\ inv[p].trace[Len(inv[p].trace)] = "CLEANUP"
        /\ ListNow # <<>>

\* The invocation of p has resolved a name that was not registered when it
\* began: get_container_path made a directory, saved, and returned its path.
ResolvedNew(p) ==
    /\ inv[p].resolved = "returned"
    /\ ~inv[p].registered
    /\ inv[p].writes = 1
    /\ inv[p].mkdirs = 1

\* C12 (lost update across invocations): a save replaces the whole file by
\* the record the saving invocation loaded, with its own name added, whatever
\* was written in between; so when two simultaneous invocations have each
\* resolved a new name (two different names), the registry on disk holds at
\* least one of the two with the path returned for it, and it holds the other
\* only if it was in the record the last writer had loaded: nothing else
\* keeps it.
C12_LostUpdate ==
    /\ [][\A p \in Procs :
            inv[p].pc = "gcp_save" /\ inv'[p].pc # "gcp_save"
            => /\ registry_json'.exists
               /\ OnDisk' = DictSet(inv[p].registry.containers, inv[p].name,
                                    inv[p].container_path)]_vars
    /\ [](\A p, q \in Procs :
            ResolvedNew(p) /\ ResolvedNew(q) /\ inv[p].name # inv[q].name
            => /\ inv[p].container_path # inv[q].container_path
               /\ {inv[p].container_path, inv[q].container_path} \subseteq cdirs
               /\ \/ /\ Registered(inv[p].name)
                     /\ DictGet(OnDisk, inv[p].name) = inv[p].container_path
                  \/ /\ Registered(inv[q].name)
                     /\ DictGet(OnDisk, inv[q].name) = inv[q].container_path)

\* C12 witness: both invocations have ended after resolving two different new
\* names on a root whose registry file existed, and the registry on disk
\* holds only one of the two names: the path returned to the other is not
\* recorded.
C12_Witness ==
    \E p, q \in Procs :
        /\ inv[p].pc = "done" /\ inv[q].pc = "done"
        /\ ResolvedNew(p) /\ ResolvedNew(q) /\ inv[p].name # inv[q].name
        /\ Registered(inv[p].name)
        /\ ~Registered(inv[q].name)
        /\ inv[q].container_path \in cdirs
        /\ \A i \in 1 .. Len(OnDisk) : OnDisk[i][2] # inv[q].container_path

\* The dicts d and e are equal as Python compares them: the same keys with
\* the same values, in any order.
DictEq(d, e) ==
    /\ \A i \in 1 .. Len(d) : DictHas(e, d[i][1]) /\ DictGet(e, d[i][1]) = d[i][2]
    /\ \A i \in 1 .. Len(e) : DictHas(d, e[i][1]) /\ DictGet(d, e[i][1]) = e[i][2]

\* C13 (round-trip registry): a load after a save does not raise and returns
\* a record with the version tag that was saved and a containers mapping
\* equal to the one saved (the same names with the same paths), whether the
\* root directory or registry.json existed before the save or not; the root
\* and the file exist after the save.
C13_RoundTrip ==
    \A p, q \in Procs :
        /\ inv[p].pc = "rt_saved"
           => root_exists /\ registry_json.exists
        /\ inv[p].pc = "rt_saved" /\ inv[q].pc = "rt_loaded"
           => /\ inv[q].result = ""
              /\ inv[q].registry.version = inv[p].registry.version
              /\ DictEq(inv[q].registry.containers, inv[p].registry.containers)
              /\ Len(inv[q].registry.containers) = Len(inv[p].registry.containers)

\* C13 witness: a record of three names, with a version tag other than
\* REGISTRY_VERSION, has been saved over an earlier registry.json and loaded.
C13_Witness ==
    \E p, q \in Procs :
        /\ inv[p].pc = "rt_saved" /\ inv[q].pc = "rt_loaded"
        /\ Len(inv[p].registry.containers) = Cardinality(RegistryNames)
        /\ inv[p].registry.version # REGISTRY_VERSION
        /\ inv[q].registry = inv[p].registry
        /\ inv[p].registry # SeedRegistry

\* The package manager the specification gives for a base and a --pkg
\* argument: the argument when it is not empty, else apt for a base with
\* ubuntu or debian in its name, else yum for one with centos or fedora, else
\* none ("unknown").
Selected(base, arg) ==
    IF arg # "" THEN arg
    ELSE IF base \cap {"ubuntu", "debian"} # {} THEN "apt"
    ELSE IF base \cap {"centos", "fedora"} # {} THEN "yum"
    ELSE "unknown"

\* C14 (package-manager selection in create): get_package_manager gives apt
\* for every base with ubuntu or debian in its name, else yum for every base
\* with centos or fedora, else "unknown"; a create that has passed the
\* decision goes on with the --pkg argument when one was given, whatever the
\* base, and else with the manager of its base, which is then apt or yum; a
\* create has failed with UnknownPackageManager only with no --pkg argument
\* and a base with none of the four names, and then no build step has run
\* and no temporary workspace was made.
C14_PackageManagerSelection ==
    /\ \A base \in SUBSET Keywords :
          get_package_manager(base) = Selected(base, "")
    /\ \A p \in Procs :
          inv[p].cmd = "create"
          => /\ inv[p].pc = "gcp_load"
                => /\ inv[p].pkg = Selected(inv[p].base, inv[p].arg)
                   /\ inv[p].arg = "" => inv[p].pkg \in {"apt", "yum"}
                   /\ inv[p].arg # "" => inv[p].pkg = inv[p].arg
             /\ inv[p].result = "UnknownPackageManager"
                <=> /\ inv[p].pc = "done"
                    /\ inv[p].trace = <<"RESOLVE_VERSION", "PKG_DECISION">>
                    /\ inv[p].arg = ""
                    /\ inv[p].base \cap Keywords = {}
             /\ inv[p].result = "UnknownPackageManager"
                => /\ Events(inv[p]) \cap BuildEvents = {}
                   /\ inv[p].temp_dir = 0

\* C14 witness: a create with no --pkg argument and a base with both ubuntu
\* and centos in its name has chosen apt.
C14_Witness ==
    \E p \in Procs :
        /\ inv[p].cmd = "create" /\ inv[p].pc = "gcp_load"
        /\ inv[p].arg = ""
        /\ inv[p].base = {"ubuntu", "centos"}
        /\ inv[p].pkg = "apt"

\* A create is building into the version directory of (name, version).
Building(name, version) ==
    \E p \in Procs :
        /\ inv[p].cmd = "create" /\ inv[p].pc \in BuildPositions
        /\ VersionPath(inv[p]) = VersionDir(name, version)

\* C15 (a version name is consumed by a failed build), as the specification
\* states it: a create(C, V) begun while the version directory of (C, V),
\* left by a failed or interrupted create, is on disk without container.sif
\* ends with DuplicateVersion.
C15_LaterCreateDuplicate ==
    \A p \in Procs :
        /\ inv[p].cmd = "create" /\ inv[p].existed /\ ~inv[p].imaged
        /\ inv[p].pc = "done"
        => inv[p].result = "DuplicateVersion"

\* C15 amended: from ALLOCATE_VERSION until the conversion a create has its
\* version directory on disk without container.sif, and an engine failure or
\* an interruption leaves the files as they are; a version directory without
\* container.sif that no create is building into stays, without
\* container.sif, at every step; a create(C, V) begun while that directory
\* is on disk runs no build step and ends with DuplicateVersion, or with
\* UnknownPackageManager when it has no --pkg argument and an unrecognised
\* base (that test comes first); and a list run at any time does not print
\* (C, V).
C15_VersionConsumed ==
    /\ [](\A p \in Procs :
            /\ inv[p].cmd = "create"
               /\ inv[p].pc \in {"c_mktemp", "c_sandbox", "c_record", "c_convert"}
               => /\ HasVersion(inv[p].name, inv[p].version)
                  /\ ~HasImage(inv[p].name, inv[p].version)
                  /\ VersionPath(inv[p]) = VersionDir(inv[p].name, inv[p].version)
            /\ inv[p].cmd = "create" /\ inv[p].pc = "done"
               /\ inv[p].result = "ExternalToolFailure"
               /\ "CLEANUP" \notin Events(inv[p])
               => /\ HasVersion(inv[p].name, inv[p].version)
                  /\ ~HasImage(inv[p].name, inv[p].version))
    /\ [][\A p \in Procs :
            Running(p) /\ inv'[p] = Idle
            => /\ vdirs' = vdirs /\ registry_json' = registry_json
               /\ cdirs' = cdirs /\ temp' = temp]_vars
    /\ [][\/ vdirs' = vdirs /\ registry_json' = registry_json
          \/ \A n \in Names, v \in Versions :
               HasVersion(n, v) /\ ~HasImage(n, v) /\ ~Building(n, v)
               => HasVersion(n, v)' /\ ~HasImage(n, v)']_vars
    /\ [](\A p \in Procs :
            inv[p].cmd = "create" /\ inv[p].existed /\ ~inv[p].imaged
            => /\ inv[p].pc \notin BuildPositions
               /\ Events(inv[p]) \cap BuildEvents = {}
               /\ "CHECK_VERSION" \in Events(inv[p]) /\ inv[p].pc = "done"
                  => inv[p].result = "DuplicateVersion"
               /\ inv[p].pc = "done"
                  => \/ inv[p].result = "DuplicateVersion"
                     \/ /\ inv[p].result = "UnknownPackageManager"
                        /\ inv[p].arg = ""
                        /\ inv[p].base \cap Keywords = {})
    /\ [](\A n \in Names, v \in Versions :
            ~HasImage(n, v) => Count(ListNow, <<n, v>>) = 0)

\* C15 witness: a create has ended with DuplicateVersion on a version
\* directory that an earlier create left without container.sif; the
\* directory is still on disk, without image, and a list would not print it.
C15_Witness ==
    \E p \in Procs :
        /\ inv[p].cmd = "create" /\ inv[p].existed /\ ~inv[p].imaged
        /\ inv[p].pc = "done" /\ inv[p].result = "DuplicateVersion"
        /\ HasVersion(inv[p].name, inv[p].version)
        /\ ~HasImage(inv[p].name, inv[p].version)
        /\ temp # EmptyMap

\* C16 (only create allocates versions), as the specification states it: no
\* step of a run, a list or a replay, whether it goes on to succeed or to
\* fail, changes the set of version directories.
C16_OnlyCreateAllocates ==
    [][\A p \in Procs :
         inv[p].cmd \in {"run", "list", "replay"} /\ Running(p)
         /\ inv'[p] # inv[p]
         => DOMAIN vdirs' = DOMAIN vdirs]_vars

\* C17 (path stability under sequential use): with the commands run one after
\* the other, also when some are interrupted, a name that is in the
\* persisted registry is still in it after every step, with the same path,
\* and registry.json, once written, stays; in every state two different
\* names of the persisted registry have different container directories.
C17_PathStability ==
    /\ [][\/ registry_json' = registry_json
          \/ /\ registry_json'.exists
             /\ \A name \in Names :
                  Registered(name)
                  => /\ Registered(name)'
                     /\ DictGet(OnDisk, name)' = DictGet(OnDisk, name)]_vars
    /\ [](\A i, j \in 1 .. Len(OnDisk) :
            i # j => OnDisk[i][1] # OnDisk[j][1] /\ OnDisk[i][2] # OnDisk[j][2])

\* C17 witness: both names are registered, and an invocation that began when
\* its name was already registered has been given the registered path.
C17_Witness ==
    /\ \A name \in Names : Registered(name)
    /\ \E p \in Procs :
         /\ inv[p].registered /\ inv[p].resolved = "returned"
         /\ inv[p].writes = 0
         /\ inv[p].container_path = DictGet(OnDisk, inv[p].name)

\* The create of p has gone past ALLOCATE_VERSION: get_container_version_path
\* made the version directory and cmd_create went on to the build.
PastAllocation(p) ==
    /\ inv[p].cmd = "create"
    /\ "ALLOCATE_VERSION" \in Events(inv[p])
    /\ inv[p].result \notin {"FileExistsError", "FileNotFoundError"}

\* The create of p has failed at the allocation: the existence test found the
\* version directory, or os.mkdir found it made in between.
FailedAllocation(p) ==
    /\ inv[p].cmd = "create" /\ inv[p].pc = "done"
    /\ \/ inv[p].result = "DuplicateVersion"
          /\ inv[p].trace[Len(inv[p].trace)] = "CHECK_VERSION"
       \/ inv[p].result = "FileExistsError"
          /\ inv[p].trace[Len(inv[p].trace)] = "ALLOCATE_VERSION"

\* C18 (concurrent allocation of one version): two simultaneous creates that
\* have both gone past ALLOCATE_VERSION have different version directories;
\* of two simultaneous creates of the same (name, version), for a name
\* registered before both began, at most one has gone past ALLOCATE_VERSION,
\* and when both have got as far as the existence test and ended, the other
\* one failed at the allocation (DuplicateVersion from the test, or
\* FileExistsError from os.mkdir); the files of a version directory are
\* those written by one build.
C18_OneAllocation ==
    /\ \A p, q \in Procs :
          p # q /\ PastAllocation(p) /\ PastAllocation(q)
          => VersionPath(inv[p]) # VersionPath(inv[q])
    /\ \A p, q \in Procs :
          /\ p # q
          /\ inv[p].cmd = "create" /\ inv[q].cmd = "create"
          /\ inv[p].name = inv[q].name /\ inv[p].version = inv[q].version
          /\ inv[p].registered /\ inv[q].registered
          => /\ ~(PastAllocation(p) /\ PastAllocation(q))
             /\ PastAllocation(p) /\ inv[q].pc = "done"
                /\ "CHECK_VERSION" \in Events(inv[q])
                => FailedAllocation(q)
             /\ inv[p].pc \in BuildPositions => inv[q].pc \notin BuildPositions
    /\ \A d \in DOMAIN vdirs :
          vdirs[d].cast # 0 /\ vdirs[d].sif # 0 => vdirs[d].cast = vdirs[d].sif

\* C18 witness: two simultaneous creates of the same version of a registered
\* name both found the version directory absent; one made it and is
\* building, the other failed in os.mkdir.
C18_Witness ==
    \E p, q \in Procs :
        /\ p # q
        /\ inv[p].cmd = "create" /\ inv[q].cmd = "create"
        /\ inv[p].name = inv[q].name /\ inv[p].version = inv[q].version
        /\ inv[p].registered /\ inv[q].registered
        /\ inv[p].pc \in BuildPositions
        /\ inv[q].pc = "done" /\ inv[q].result = "FileExistsError"

\* The container directory id is not the path of any name of the persisted
\* registry.
Unreachable(id) == \A i \in 1 .. Len(OnDisk) : OnDisk[i][2] # id

\* C19 (concurrent first reference to one name): a save registers the name
\* with the path of the saving invocation, also when another invocation has
\* registered the same name in between; so when two simultaneous invocations
\* have each resolved the same new name, they were returned two different
\* directories, both on disk, the registry maps the name to one of the two,
\* the other directory is the path of no name, and a list run now prints a
\* version of the name only if its image is under the registered directory:
\* an image built in the other directory is not listed.
C19_SameNameRace ==
    /\ [][\A p \in Procs :
            inv[p].pc = "gcp_save" /\ inv'[p].pc # "gcp_save"
            => /\ Registered(inv[p].name)'
               /\ DictGet(OnDisk, inv[p].name)' = inv[p].container_path]_vars
    /\ [](\A p, q \in Procs :
            p # q /\ ResolvedNew(p) /\ ResolvedNew(q) /\ inv[p].name = inv[q].name
            => /\ inv[p].container_path # inv[q].container_path
               /\ {inv[p].container_path, inv[q].container_path} \subseteq cdirs
               /\ Registered(inv[p].name)
               /\ DictGet(OnDisk, inv[p].name)
                     \in {inv[p].container_path, inv[q].container_path}
               /\ DictGet(OnDisk, inv[p].name) # inv[q].container_path
                  => /\ Unreachable(inv[q].container_path)
                     /\ \A v \in Versions :
                          Count(ListNow, <<inv[q].name, v>>) =
                              IF <<inv[p].container_path, v>> \in DOMAIN vdirs
                                 /\ vdirs[<<inv[p].container_path, v>>].sif # 0
                              THEN 1 ELSE 0)

\* C19 witness: two simultaneous invocations have resolved the same new name
\* on a root whose registry file existed; one, a create, has built its
\* version and returned, and its directory is not in the registry, which
\* holds the path of the other: a list prints nothing for the name.
C19_Witness ==
    \E p, q \in Procs :
        /\ p # q /\ ResolvedNew(p) /\ ResolvedNew(q) /\ inv[p].name = inv[q].name
        /\ inv[p].pc = "done" /\ inv[q].pc = "done"
        /\ inv[q].cmd = "create" /\ inv[q].result = "ok"
        /\ Converted(inv[q])
        /\ inv[p].container_path # inv[q].container_path
        /\ DictGet(OnDisk, inv[q].name) = inv[p].container_path
        /\ Unreachable(inv[q].container_path)
        /\ \A v \in Versions : Count(ListNow, <<inv[q].name, v>>) = 0

====
